---- MODULE Spec2Model ----
(***************************************************************************)
(* A model of the Limitless sync plugin (src/main.ts): the backoff request *)
(* executor (LimitlessAPI.makeRequest), the lifelog date walk              *)
(* (syncLifelogs / getLifelogs) and the chat walk (syncChats /             *)
(* processChatFile).                                                       *)
(***************************************************************************)
EXTENDS Integers, Sequences, FiniteSets, TLC

VARIABLES
    \* ---- LimitlessAPI.makeRequest, one frame per caller ----
    reqPc,        \* caller -> "idle" | "send" | "wait" | "returned" | "thrown"
    retries,      \* caller -> the local `retries` of the running call
    attempts,     \* caller -> requestUrl calls issued by the running call
    lastError,    \* caller -> the error caught last (NoError when none)
    delay,        \* caller -> the delay handed to setTimeout last
    waited,       \* caller -> ms the timer that has just fired ran
    all429,       \* caller -> every attempt of the running call answered 429
    calls,        \* caller -> makeRequest calls started so far
    \* ---- the plugin's surroundings ----
    settings,     \* LimitlessLifelogsSettings
    tz,           \* the host's time zone: [base, dstOn, dstOff] in hours
    nowT,         \* the instant `new Date()` gives, in hours since day 0
    files,        \* the vault: path -> text, for the files that exist
    folders,      \* the folders that exist
    \* ---- syncLifelogs / getLifelogs ----
    lPc,          \* "idle" | "page" | "write" | "next" | "done" | "error"
    currentDate,  \* the loop's Date, an instant in hours
    endDate,      \* the instant the run started
    allLifelogs,  \* getLifelogs: the lifelogs accumulated for the date
    lPages,       \* getLifelogs: pages received for the date
    lPageLog,     \* history: the pages received for the date, in order
    fetchLog,     \* history: the date of every getLifelogs call of the run
    lWritten,     \* history: date -> text the run wrote last for it
    lFailedAt,    \* history: the date whose fetch or write failed (NoDate)
    initialDates, \* history: dates with a file in the folder at the start
    \* ---- the chat service ----
    remote,       \* [chats, pageSize, trailing, endless]: the service
    \* ---- syncChats / processChatFile, one frame per invocation ----
    cPc,          \* "idle" | "fetch" | "chat" | "write" | "done" | "error" ...
    cursor,       \* the local `cursor` (0: undefined)
    processedChats, \* the local `processedChats`
    cPage,        \* result.chats still to be processed
    cNextCursor,  \* result.meta.chats.nextCursor (0: none)
    cPath,        \* processChatFile: filePath
    cContent,     \* processChatFile: content
    cRun,         \* history: runs started by this invocation slot
    cRequests,    \* history: getChats calls of the run
    cReceived,    \* history: chats received in the run's pages
    cWrites,      \* history: vault writes issued by the run
    cFetchFailed, \* history: a getChats call of the run threw
    cItemFailures,\* history: chats of the run whose processing threw
    faults,       \* history: I/O faults injected so far
    \* ---- formatLifelogMarkdown applied to one lifelog ----
    lifelogIn,    \* the lifelog handed to the renderer
    markdownOut   \* the text it returned (NotRendered before the call)

reqVars == <<reqPc, retries, attempts, lastError, delay, waited, all429, calls>>

envVars == <<settings, tz, nowT, files, folders>>

lifelogVars ==
    <<lPc, currentDate, endDate, allLifelogs, lPages, lPageLog, fetchLog, lWritten,
      lFailedAt, initialDates>>

chatVars ==
    <<remote, cPc, cursor, processedChats, cPage, cNextCursor, cPath, cContent,
      cRun, cRequests, cReceived, cWrites, cFetchFailed, cItemFailures, faults>>

renderVars == <<lifelogIn, markdownOut>>

vars == <<reqVars, envVars, lifelogVars, chatVars, renderVars>>

(***************************************************************************)
(* Small helpers                                                           *)
(***************************************************************************)
Min(a, b) == IF a <= b THEN a ELSE b

Max(a, b) == IF a >= b THEN a ELSE b

RECURSIVE Pow2(_)
Pow2(n) == IF n <= 0 THEN 1 ELSE 2 * Pow2(n - 1)

\* NaN, as a value no computed delay or instant of the model takes.
NaN == 0 - 999999999

\* An error without a status field (error.status is undefined).
NoStatus == 0

(***************************************************************************)
(* LimitlessAPI: constants of the class                                    *)
(***************************************************************************)
batchSize == 10

maxRetries == 5

retryDelay == 1000

\* The two sync procedures that call the API.
Callers == {"lifelogs", "chats"}

\* Bound: makeRequest calls one caller starts (pages of one walk).
MaxCalls == 2

(***************************************************************************)
(* The service's answers to one requestUrl call.                           *)
(*   status 0 stands for a network error (no HTTP status on the error).    *)
(*   A retry-after header is a short text: a sequence of characters, "D"   *)
(*   standing for an HTTP-date text and "x" for text that is no date.      *)
(***************************************************************************)
NoHeader == <<>>

RetryAfterHeaders ==
    {NoHeader, <<"3">>, <<"0">>, <<"-", "3">>, <<"1", "2">>, <<"3", "x">>,
     <<"D">>, <<"x">>}

\* The clock readings (ms) `new Date()` may give when the error is caught;
\* the HTTP-date text "D" denotes the instant 5000.
NowValues == {3000, 7000}

OtherErrorStatuses == {0, 404, 500}

Responses ==
    [status : {200}, json : BOOLEAN, retryAfter : {NoHeader}]
      \cup [status : OtherErrorStatuses, json : {FALSE}, retryAfter : {NoHeader}]
      \cup [status : {429}, json : {FALSE}, retryAfter : RetryAfterHeaders]

NoError == [status |-> NoStatus, retryAfter |-> NoHeader, none |-> TRUE]

\* The error the try block of makeRequest throws for a response, NoError
\* when it returns response.json: requestUrl throws on a status >= 400 (the
\* error carries status and headers) and on a network failure (no status);
\* a 200 without usable json throws Error('Invalid response format').
ErrorOf(resp) ==
    IF resp.status = 200
      THEN IF resp.json THEN NoError
           ELSE [status |-> NoStatus, retryAfter |-> NoHeader, none |-> FALSE]
      ELSE [status |-> IF resp.status = 0 THEN NoStatus ELSE resp.status,
            retryAfter |-> resp.retryAfter, none |-> FALSE]

(***************************************************************************)
(* parseInt(text, 10): optional sign, then the longest prefix of digits;   *)
(* NaN when there is no digit.                                             *)
(***************************************************************************)
DigitValue(c) ==
    CASE c = "0" -> 0 [] c = "1" -> 1 [] c = "2" -> 2 [] c = "3" -> 3
      [] OTHER -> -1

IsDigit(c) == DigitValue(c) >= 0

RECURSIVE DigitsPrefix(_, _, _)
DigitsPrefix(s, acc, seen) ==
    IF s = <<>> \/ ~IsDigit(Head(s))
      THEN IF seen THEN acc ELSE NaN
      ELSE DigitsPrefix(Tail(s), 10 * acc + DigitValue(Head(s)), TRUE)

parseInt(s) ==
    IF s # <<>> /\ Head(s) = "-"
      THEN LET v == DigitsPrefix(Tail(s), 0, FALSE)
           IN  IF v = NaN THEN NaN ELSE 0 - v
      ELSE DigitsPrefix(s, 0, FALSE)

\* new Date(text).getTime(): the instant of an HTTP-date, NaN otherwise.
DateGetTime(s) == IF s = <<"D">> THEN 5000 ELSE NaN

(***************************************************************************)
(* makeRequest, lines 649-662: the retry decision and the delay            *)
(***************************************************************************)
ShouldRetry_NoStatusCheck(err, n) == n < maxRetries

ShouldRetry_OffByOne(err, n) == err.status = 429 /\ n <= maxRetries

ShouldRetry(err, n) == err.status = 429 /\ n < maxRetries

ComputeDelay_Linear(err, n, now) ==
    LET retryAfter == err.retryAfter
    IN  IF retryAfter # NoHeader
          THEN LET retryAfterSeconds == parseInt(retryAfter)
               IN  IF retryAfterSeconds # NaN
                     THEN retryAfterSeconds * 1000
                     ELSE LET t == DateGetTime(retryAfter)
                          IN  IF t = NaN THEN NaN ELSE t - now
          ELSE retryDelay * (n + 1)

ComputeDelay(err, n, now) ==
    LET retryAfter == err.retryAfter
    IN  IF retryAfter # NoHeader
          THEN LET retryAfterSeconds == parseInt(retryAfter)
               IN  IF retryAfterSeconds # NaN
                     THEN retryAfterSeconds * 1000
                     ELSE LET t == DateGetTime(retryAfter)
                          IN  IF t = NaN THEN NaN ELSE t - now
          ELSE retryDelay * Pow2(n)

\* setTimeout(resolve, delay), line 665: the timer runs for `delay` ms; a
\* delay that is zero, negative or NaN is taken as 0 and the timer fires at
\* once.
TimerWait(d) == IF d = NaN \/ d <= 0 THEN 0 ELSE d

(***************************************************************************)
(* makeRequest as steps of one caller c                                    *)
(***************************************************************************)
RetriesAtEntry_Carried(previous) == previous

\* let retries = 0, line 631: whatever an earlier call has counted.
RetriesAtEntry(previous) == 0

\* The caller enters makeRequest.
Call(c) ==
    /\ reqPc[c] \in {"idle", "returned", "thrown"}
    /\ calls[c] < MaxCalls
    /\ calls' = [calls EXCEPT ![c] = @ + 1]
    /\ reqPc' = [reqPc EXCEPT ![c] = "send"]
    /\ retries' = [retries EXCEPT ![c] = RetriesAtEntry(@)]
    /\ attempts' = [attempts EXCEPT ![c] = 0]
    /\ lastError' = [lastError EXCEPT ![c] = NoError]
    /\ delay' = [delay EXCEPT ![c] = 0]
    /\ waited' = [waited EXCEPT ![c] = 0]
    /\ all429' = [all429 EXCEPT ![c] = TRUE]
    /\ UNCHANGED <<envVars, lifelogVars, chatVars,
                 renderVars>>

\* One pass of the while (true) body up to the first await that suspends or
\* to the exit: await requestUrl, then return, throw, or start the wait.
Attempt(c) ==
    /\ reqPc[c] = "send"
    /\ \E resp \in Responses, now \in NowValues :
         LET err == ErrorOf(resp)
         IN  /\ attempts' = [attempts EXCEPT ![c] = @ + 1]
             /\ waited' = [waited EXCEPT ![c] = 0]
             /\ all429' = [all429 EXCEPT ![c] = @ /\ resp.status = 429]
             /\ lastError' = [lastError EXCEPT ![c] = err]
             /\ IF err = NoError
                  THEN /\ reqPc' = [reqPc EXCEPT ![c] = "returned"]
                       /\ UNCHANGED delay
                  ELSE IF ShouldRetry(err, retries[c])
                         THEN /\ reqPc' = [reqPc EXCEPT ![c] = "wait"]
                              /\ delay' = [delay EXCEPT ![c] =
                                             ComputeDelay(err, retries[c], now)]
                         ELSE /\ reqPc' = [reqPc EXCEPT ![c] = "thrown"]
                              /\ UNCHANGED delay
    /\ UNCHANGED <<retries, calls, envVars, lifelogVars, chatVars,
                 renderVars>>

\* The timer of line 665 fires: retries++ and the loop goes round; the
\* catch block's `error` and `delay` go out of scope.
Timeout(c) ==
    /\ reqPc[c] = "wait"
    /\ retries' = [retries EXCEPT ![c] = @ + 1]
    /\ reqPc' = [reqPc EXCEPT ![c] = "send"]
    /\ lastError' = [lastError EXCEPT ![c] = NoError]
    /\ waited' = [waited EXCEPT ![c] = TimerWait(delay[c])]
    /\ delay' = [delay EXCEPT ![c] = 0]
    /\ UNCHANGED <<attempts, all429, calls, envVars, lifelogVars, chatVars,
                 renderVars>>

(***************************************************************************)
(* The vault and the clock                                                 *)
(***************************************************************************)
\* Texts are sequences of characters (one-character strings and tokens).
OldText == <<"o", "l", "d">>

\* A file path: the folders from the vault root, the basename and the
\* extension.  A basename is a date-shaped name (YYYY-MM-DD, kind "date",
\* a = the day it names), a chat file name, or some other name.
DateName(d) == [kind |-> "date", a |-> d, b |-> <<>>]

OtherName == [kind |-> "other", a |-> 0, b |-> <<"n", "o", "t", "e", "s">>]

FilePath(folder, name) == [folder |-> folder, name |-> name, ext |-> "md"]

WriteFile_Append(fs, path, text) ==
    [q \in DOMAIN fs \cup {path} |->
        IF q = path THEN (IF path \in DOMAIN fs THEN fs[path] \o text ELSE text)
        ELSE fs[q]]

\* vault.adapter.write(path, text): create or overwrite.
WriteFile(fs, path, text) ==
    [q \in DOMAIN fs \cup {path} |-> IF q = path THEN text ELSE fs[q]]

\* Bound: the days the model's clock covers are 0..MaxDay.
MaxDay == 2

HoursPerDay == 24

\* No instant: null / no date.
NoDate == 0 - 1

\* An instant later than every instant of the model.
Far == 1000000 + 0

\* new Date("YYYY-MM-DD"): midnight UTC of the day.
ParseDate(d) == d * HoursPerDay

\* date.toISOString().split('T')[0]: the UTC calendar day of an instant.
IsoDate(t) == t \div HoursPerDay

\* The local offset from UTC at instant t, daylight saving included.
Offset(zone, t) ==
    zone.base + (IF zone.dstOn <= t /\ t < zone.dstOff THEN 1 ELSE 0)

\* date.setDate(date.getDate() + 1): the same wall-clock time on the next
\* local calendar day.  A wall-clock time that occurs twice or not at all
\* is read with the offset in force before the transition.
LocalAddDay(zone, t) ==
    LET wall == t + Offset(zone, t) + HoursPerDay
        std  == wall - zone.base
        dst  == wall - zone.base - 1
        stdOk == Offset(zone, std) = zone.base
        dstOk == Offset(zone, dst) = zone.base + 1
    IN  CASE stdOk /\ ~dstOk -> std
          [] dstOk /\ ~stdOk -> dst
          [] stdOk /\ dstOk  -> dst
          [] OTHER           -> std

\* Time zones: UTC; UTC-5 and UTC+1 entering daylight saving during day 1;
\* UTC-5 leaving it during day 1.
TimeZones ==
    { [base |-> 0, dstOn |-> Far, dstOff |-> Far],
      [base |-> 0 - 5, dstOn |-> HoursPerDay + 7, dstOff |-> Far],
      [base |-> 1, dstOn |-> HoursPerDay + 1, dstOff |-> Far],
      [base |-> 0 - 5, dstOn |-> 0 - Far, dstOff |-> HoursPerDay + 6] }

(***************************************************************************)
(* Lifelogs and their rendering                                            *)
(***************************************************************************)
\* text.replaceAll('\n\n', '\n'): left to right, matches do not overlap.
RECURSIVE ReplaceAllDoubleNewline(_)
ReplaceAllDoubleNewline(s) ==
    IF Len(s) < 2 THEN s
    ELSE IF s[1] = "\n" /\ s[2] = "\n"
           THEN <<"\n">> \o ReplaceAllDoubleNewline(SubSeq(s, 3, Len(s)))
           ELSE <<s[1]>> \o ReplaceAllDoubleNewline(Tail(s))

\* The lifelog the service holds on page k of a date.
LifelogOnPage(k) == [markdown |-> <<"p", ToString(k), "\n", "\n", "b">>]

\* content.join(sep) over blocks of text.
RECURSIVE JoinBlocks(_, _)
JoinBlocks(blocks, sep) ==
    IF blocks = <<>> THEN <<>>
    ELSE IF Len(blocks) = 1 THEN blocks[1]
    ELSE blocks[1] \o sep \o JoinBlocks(Tail(blocks), sep)

\* Lines 229-242: '' without a startTime (0), else the localized time in
\* parentheses; the localized time is kept as one token per instant.
LifelogTimestamp(startTime) ==
    IF startTime = 0 THEN <<>> ELSE <<"(", ToString(startTime), ")">>

\* Lines 228 and 244: the line of a blockquote node.
LifelogMessage(node) ==
    <<"- ", IF node.speakerName # "" THEN node.speakerName ELSE "Speaker", " ">>
      \o LifelogTimestamp(node.startTime) \o <<": ", node.content>>

\* The block `## ${currentSection}\n`.
SectionHeading(currentSection) == <<"## ", currentSection, "\n">>

\* if (currentSection && sectionMessages.length > 0), lines 220 and 255.
SectionIsFlushed(currentSection, sectionMessages) ==
    currentSection # "" /\ sectionMessages # <<>>

FinalFlush_None(content, currentSection, sectionMessages) == content

\* Lines 255-258: the section still open after the loop.
FinalFlush(content, currentSection, sectionMessages) ==
    IF SectionIsFlushed(currentSection, sectionMessages)
      THEN content \o <<SectionHeading(currentSection)>> \o sectionMessages
      ELSE content

\* The for loop of lines 218-253 and the flush after it: the blocks pushed
\* to `content`.
RECURSIVE FormatNodes(_, _, _, _)
FormatNodes(nodes, content, currentSection, sectionMessages) ==
    IF nodes = <<>>
      THEN FinalFlush(content, currentSection, sectionMessages)
      ELSE LET node == Head(nodes)
           IN  IF node.type = "heading2"
                 THEN FormatNodes(Tail(nodes),
                        IF SectionIsFlushed(currentSection, sectionMessages)
                          THEN content \o <<SectionHeading(currentSection)>>
                                 \o sectionMessages \o << <<>> >>
                          ELSE content,
                        node.content, <<>>)
               ELSE IF node.type = "blockquote"
                 THEN IF currentSection # ""
                        THEN FormatNodes(Tail(nodes), content, currentSection,
                                         Append(sectionMessages, LifelogMessage(node)))
                        ELSE FormatNodes(Tail(nodes),
                                         Append(content, LifelogMessage(node)),
                                         currentSection, sectionMessages)
               ELSE IF node.type # "heading1"
                 THEN FormatNodes(Tail(nodes), Append(content, <<node.content>>),
                                  currentSection, sectionMessages)
               ELSE FormatNodes(Tail(nodes), content, currentSection, sectionMessages)

\* formatLifelogMarkdown: the pre-rendered markdown of the lifelog when it
\* carries one (the requests ask for it: includeMarkdown=true), else the
\* title and the nodes of `contents`.
formatLifelogMarkdown(lifelog) ==
    IF lifelog.markdown # <<>>
      THEN ReplaceAllDoubleNewline(lifelog.markdown)
      ELSE JoinBlocks((IF lifelog.title # ""
                         THEN << <<"# ", lifelog.title, "\n">> >> ELSE <<>>)
                        \o FormatNodes(lifelog.contents, <<>>, "", <<>>),
                      <<"\n", "\n">>)

\* logs.map(format).join('\n\n')
RECURSIVE JoinLifelogs(_)
JoinLifelogs(logs) ==
    IF logs = <<>> THEN <<>>
    ELSE IF Len(logs) = 1 THEN formatLifelogMarkdown(logs[1])
    ELSE formatLifelogMarkdown(logs[1]) \o <<"\n", "\n">> \o JoinLifelogs(Tail(logs))

\* Bound: pages with lifelogs the service serves for one date; an endless
\* service goes on with empty pages that carry a cursor.
MaxLifelogPages == 2

\* The pages the service may answer the k-th lifelog request of a date with.
LifelogPages(k) ==
    IF k > MaxLifelogPages THEN {<<>>} ELSE {<<>>, <<LifelogOnPage(k)>>}


(***************************************************************************)
(* getLastSyncedDate, lines 184-199                                        *)
(***************************************************************************)
\* file.path.startsWith(folderPath + '/')
UnderFolder(path, folderPath) ==
    Len(path.folder) >= 1 /\ path.folder[1] = folderPath

SyncedDates(fs, folderPath) ==
    { ParseDate(q.name.a) :
        q \in { f \in DOMAIN fs : /\ UnderFolder(f, folderPath)
                                  /\ f.ext = "md"
                                  /\ f.name.kind = "date" } }

getLastSyncedDate_Oldest(fs, folderPath) ==
    LET ds == SyncedDates(fs, folderPath)
    IN  IF ds = {} THEN NoDate
        ELSE CHOOSE d \in ds : \A e \in ds : d <= e

\* sort((a, b) => b.getTime() - a.getTime())[0]: the latest date.
getLastSyncedDate(fs, folderPath) ==
    LET ds == SyncedDates(fs, folderPath)
    IN  IF ds = {} THEN NoDate
        ELSE CHOOSE d \in ds : \A e \in ds : d >= e

(***************************************************************************)
(* syncLifelogs, lines 137-175                                             *)
(***************************************************************************)
LifelogOnError_Continue == "next"

\* The catch of lines 171-174 ends the procedure.
LifelogOnError == "error"

ShouldWrite_Always(logs) == TRUE

\* if (logs && logs.length > 0)
ShouldWrite(logs) == Len(logs) > 0

PushLifelogs_Replace(all, lifelogs) == lifelogs

\* allLifelogs.push(...lifelogs), line 547.
PushLifelogs(all, lifelogs) == all \o lifelogs

LifelogFile(t) == FilePath(<<settings.folderPath>>, DateName(IsoDate(t)))

\* while (currentDate <= endDate): enter getLifelogs for the date, or finish.
EnterDate(t, until, log) ==
    /\ currentDate' = t
    /\ allLifelogs' = <<>>
    /\ lPages' = 0
    /\ lPageLog' = <<>>
    /\ IF t <= until
         THEN lPc' = "page" /\ fetchLog' = Append(log, IsoDate(t))
         ELSE lPc' = "done" /\ fetchLog' = log

StartSyncLifelogs ==
    /\ lPc = "idle"
    /\ UNCHANGED <<renderVars, reqVars, chatVars, settings, tz, nowT, files>>
    /\ lWritten' = <<>>
    /\ initialDates' =
         { f.name.a : f \in { g \in DOMAIN files :
                                /\ g.folder = <<settings.folderPath>>
                                /\ g.ext = "md"
                                /\ g.name.kind = "date" } }
    /\ IF settings.apiKey = ""
         THEN /\ lPc' = "nokey"
              /\ UNCHANGED <<folders, currentDate, endDate, allLifelogs, lPages, lPageLog,
                             fetchLog, lFailedAt>>
         ELSE \E created \in BOOLEAN :
                IF settings.folderPath \notin folders /\ ~created
                  THEN \* createFolder throws
                       /\ lPc' = LifelogOnError
                       /\ UNCHANGED <<folders, currentDate, endDate, allLifelogs,
                                      lPages, lPageLog, fetchLog, lFailedAt>>
                  ELSE LET lastSyncedDate ==
                               getLastSyncedDate(files, settings.folderPath)
                           startDate ==
                               IF lastSyncedDate # NoDate THEN lastSyncedDate
                               ELSE ParseDate(settings.startDate)
                       IN  /\ folders' = folders \cup {settings.folderPath}
                           /\ endDate' = nowT
                           /\ EnterDate(startDate, nowT, <<>>)
                           /\ UNCHANGED lFailedAt

\* One page of getLifelogs (lines 539-554): makeRequest returns a page or
\* throws; after the last page the loop body of syncLifelogs goes on.
FetchLifelogPage ==
    /\ lPc = "page"
    /\ UNCHANGED <<renderVars, reqVars, chatVars, envVars, currentDate, endDate, fetchLog, lWritten,
                   initialDates>>
    /\ \/ /\ lFailedAt' = IsoDate(currentDate)
          /\ lPc' = LifelogOnError
          /\ UNCHANGED <<allLifelogs, lPages, lPageLog>>
       \/ \E page \in LifelogPages(lPages + 1), more \in BOOLEAN :
            /\ more => (lPages + 1 < MaxLifelogPages \/ remote.endless)
            /\ allLifelogs' = PushLifelogs(allLifelogs, page)
            /\ lPages' = Min(lPages + 1, MaxLifelogPages)
            /\ lPageLog' = IF lPages < MaxLifelogPages
                             THEN Append(lPageLog, page) ELSE lPageLog
            /\ lPc' = IF more THEN "page"
                      ELSE IF ShouldWrite(allLifelogs') THEN "write" ELSE "next"
            /\ UNCHANGED lFailedAt

\* Lines 161-164: render, join and write the date's file.
WriteLifelogFile ==
    /\ lPc = "write"
    /\ UNCHANGED <<renderVars, reqVars, chatVars, settings, tz, nowT, folders, currentDate, endDate,
                   allLifelogs, lPages, lPageLog, fetchLog, initialDates>>
    /\ \/ LET content == JoinLifelogs(allLifelogs)
          IN  /\ files' = WriteFile(files, LifelogFile(currentDate), content)
              /\ lWritten' = WriteFile(lWritten, IsoDate(currentDate), content)
              /\ lPc' = "next"
              /\ UNCHANGED lFailedAt
       \/ /\ lFailedAt' = IsoDate(currentDate)
          /\ lPc' = LifelogOnError
          /\ UNCHANGED <<files, lWritten>>

\* Line 167 and the loop test.
NextDate ==
    /\ lPc = "next"
    /\ UNCHANGED <<renderVars, reqVars, chatVars, envVars, endDate, lWritten, lFailedAt, initialDates>>
    /\ EnterDate(LocalAddDay(tz, currentDate), endDate, fetchLog)

(***************************************************************************)
(* Chats: the service, the file path (lines 328-349), the rendering        *)
(* (lines 351-410)                                                         *)
(***************************************************************************)
InvalidDate == NaN

\* Three chats.  ChatA and ChatB were created on the same UTC day and have
\* summaries and ids that differ only after sanitizing and slicing; ChatC
\* has no summary and a createdAt that is no date.
ChatA ==
    [id |-> <<"a", "b", "c", "d", "1", "2", "3", "4", "x">>,
     summary |-> <<"P", "/", "n">>,
     createdAt |-> 30 * HoursPerDay + 10, startedAt |-> 30 * HoursPerDay + 10,
     visibility |-> "private",
     messages |-> << [role |-> <<"u", "s", "e", "r">>, name |-> <<>>,
                      createdAt |-> 30 * HoursPerDay + 10, text |-> <<"h", "i">>,
                      toolCalls |-> <<>>, toolResults |-> <<>>] >>]

ChatB ==
    [id |-> <<"a", "b", "c", "d", "1", "2", "3", "4", "y">>,
     summary |-> <<"P", ":", "n">>,
     createdAt |-> 30 * HoursPerDay + 23, startedAt |-> 30 * HoursPerDay + 23,
     visibility |-> "public",
     messages |-> << [role |-> <<"t", "o", "o", "l">>, name |-> <<"T">>,
                      createdAt |-> 30 * HoursPerDay + 23, text |-> <<>>,
                      toolCalls |-> << [toolName |-> "search", args |-> "{}"] >>,
                      toolResults |-> << [toolName |-> "search", isError |-> FALSE,
                                          entriesReturned |->
                                            << [title |-> "Note", id |-> "n1"] >>] >>] >>]

ChatC ==
    [id |-> <<"z", "9">>,
     summary |-> <<>>,
     createdAt |-> InvalidDate, startedAt |-> 31 * HoursPerDay + 2,
     visibility |-> "internal",
     messages |-> <<>>]

ChatUniverse == {ChatA, ChatB, ChatC}

\* The page the service answers a chats request with: the next chats after
\* the cursor, at most `limit` and at most its own page size, and a cursor to
\* the rest.  With `trailing` it hands out a cursor on the last chat too, and
\* the page after it is empty and has no cursor; with `endless` every page
\* has a cursor, the empty pages past the last chat too.
ServicePage(svc, cur, limit) ==
    LET start == IF cur = 0 THEN 1 ELSE cur
        n     == Min(limit, svc.pageSize)
        last  == Min(start + n - 1, Len(svc.chats))
    IN  [chats |-> SubSeq(svc.chats, start, last),
         nextCursor |->
            IF last < Len(svc.chats) THEN last + 1
            ELSE IF svc.endless \/ (svc.trailing /\ start <= Len(svc.chats))
                   THEN Len(svc.chats) + 1
                   ELSE 0]

\* name.replace(/[<>:"/\\|?*]/g, '_').substring(0, 100)
SanitizedChars == {"<", ">", ":", "\"", "/", "\\", "|", "?", "*"}

MaxNameLength == 100

sanitizeFilename(name) ==
    [i \in 1..Min(Len(name), MaxNameLength) |->
        IF name[i] \in SanitizedChars THEN "_" ELSE name[i]]

IdSliceLength == 8

\* A one-year calendar: the days (0 = 1 January) on which months start.
MonthStarts == <<0, 31, 59, 90, 120, 151, 181, 212, 243, 273, 304, 334>>

DaysPerYear == 365

\* date.getMonth() + 1 and date.getFullYear() of a local calendar day.
MonthOfDay(d) ==
    Cardinality({m \in 1..Len(MonthStarts) : MonthStarts[m] <= d % DaysPerYear})

YearOfDay(d) == d \div DaysPerYear

Pad2(n) == IF n < 10 THEN <<"0", ToString(n)>> ELSE <<ToString(n)>>

ChatName(text) == [kind |-> "chat", a |-> 0, b |-> text]

\* getChatFilePath throws when toISOString meets an invalid date.
getChatFilePathThrows(chat, fmt) == fmt = "daily" /\ chat.createdAt = InvalidDate

getChatFilePath(chat, folderPath, fmt, zone) ==
    LET date == chat.createdAt
    IN  CASE fmt = "per-chat" ->
               LET safeTitle ==
                     sanitizeFilename(IF chat.summary # <<>> THEN chat.summary
                                      ELSE <<"Chat ">> \o chat.id)
               IN  FilePath(<<folderPath>>,
                       ChatName(safeTitle \o <<" - ">>
                                  \o SubSeq(chat.id, 1, Min(IdSliceLength, Len(chat.id)))))
          [] fmt = "daily" ->
               FilePath(<<folderPath>>,
                        ChatName(<<"day", ToString(IsoDate(date)), " - Chats">>))
          [] fmt = "monthly" ->
               IF date = InvalidDate
                 THEN FilePath(<<folderPath>>, ChatName(<<"NaN", "-", "NaN", " - Chats">>))
                 ELSE LET localDay == IsoDate(date + Offset(zone, date))
                      IN  FilePath(<<folderPath>>,
                              ChatName(<<ToString(YearOfDay(localDay)), "-">>
                                         \o Pad2(MonthOfDay(localDay))
                                         \o <<" - Chats">>))
          [] OTHER -> FilePath(<<folderPath>>, ChatName(chat.id))

\* role.charAt(0).toUpperCase() + role.slice(1)
UpperCase(c) ==
    CASE c = "u" -> "U" [] c = "a" -> "A" [] c = "s" -> "S" [] c = "t" -> "T"
      [] OTHER -> c

formatRole(role) ==
    IF role = <<>> THEN <<>> ELSE <<UpperCase(Head(role))>> \o Tail(role)

\* new Date(instant).toLocaleString(): the local wall-clock time.
toLocaleString(t, zone) ==
    IF t = InvalidDate THEN "Invalid Date" ELSE ToString(t + Offset(zone, t))

RECURSIVE FormatEntries(_)
FormatEntries(entries) ==
    IF entries = <<>> THEN <<>>
    ELSE <<"  - [[", Head(entries).title, "]] (", Head(entries).id, ")", "\n">>
           \o FormatEntries(Tail(entries))

RECURSIVE FormatToolCalls(_)
FormatToolCalls(toolCalls) ==
    IF toolCalls = <<>> THEN <<>>
    ELSE <<"- ", Head(toolCalls).toolName, ": ", "BACKTICK", Head(toolCalls).args, "BACKTICK", "\n">>
           \o FormatToolCalls(Tail(toolCalls))

RECURSIVE FormatToolResults(_)
FormatToolResults(results) ==
    IF results = <<>> THEN <<>>
    ELSE <<"- ", Head(results).toolName, ": ",
           IF Head(results).isError THEN "Error" ELSE "Success", "\n">>
           \o FormatEntries(Head(results).entriesReturned)
           \o FormatToolResults(Tail(results))

RECURSIVE FormatMessages(_, _)
FormatMessages(messages, zone) ==
    IF messages = <<>> THEN <<>>
    ELSE LET message == Head(messages)
         IN  <<"### ">> \o formatRole(message.role) \o <<" ">> \o message.name
               \o <<"\n", "*", toLocaleString(message.createdAt, zone), "*", "\n", "\n">>
               \o (IF message.text # <<>> THEN message.text \o <<"\n", "\n">> ELSE <<>>)
               \o (IF message.toolCalls # <<>>
                     THEN <<"**Tool Calls:**", "\n">>
                            \o FormatToolCalls(message.toolCalls) \o <<"\n">>
                     ELSE <<>>)
               \o (IF message.toolResults # <<>>
                     THEN <<"**Tool Results:**", "\n">>
                            \o FormatToolResults(message.toolResults) \o <<"\n">>
                     ELSE <<>>)
               \o <<"---", "\n", "\n">>
               \o FormatMessages(Tail(messages), zone)

\* The lines of formatChatMarkdown, each followed by its line break (the
\* last line's break is dropped by Front).
formatChatLines(chat, zone) ==
    <<"# ">> \o (IF chat.summary # <<>> THEN chat.summary ELSE <<"Chat Conversation">>)
      \o <<"\n", "**Chat ID:** ">> \o chat.id
      \o <<"\n", "**Created:** ", toLocaleString(chat.createdAt, zone)>>
      \o <<"\n", "**Started:** ", toLocaleString(chat.startedAt, zone)>>
      \o <<"\n", "**Visibility:** ", chat.visibility, "\n", "\n">>
      \o (IF chat.messages # <<>>
            THEN <<"## Conversation", "\n", "\n">> \o FormatMessages(chat.messages, zone)
            ELSE <<>>)

formatChatMarkdown(chat, zone) ==
    LET lines == formatChatLines(chat, zone)
    IN  SubSeq(lines, 1, Len(lines) - 1)

(***************************************************************************)
(* syncChats (lines 263-303) and processChatFile (lines 305-326)           *)
(***************************************************************************)
ChatProcs == {1, 2}

\* Bound: I/O faults (a failed read, write or page fetch) injected in all.
MaxFaults == 1

\* Bound: the count of getChats calls of a run is kept up to this number.
MaxRequests == 6

\* Bound: chat sync runs one invocation slot starts one after the other.
MaxRuns == 2

PageLimitCap == 100

DefaultPageLimit == 50

DefaultChatCap == 200

\* limit: Math.min(this.settings.maxChatsPerSync || 50, 100)
PageLimit(cfg) ==
    Min(IF cfg.maxChatsPerSync # 0 THEN cfg.maxChatsPerSync ELSE DefaultPageLimit,
        PageLimitCap)

ContinuePaging_IgnoreCap(cfg, cur, processed) == cur # 0

\* while (cursor && processedChats < (this.settings.maxChatsPerSync || 200))
ContinuePaging(cfg, cur, processed) ==
    /\ cur # 0
    /\ processed <
         (IF cfg.maxChatsPerSync # 0 THEN cfg.maxChatsPerSync ELSE DefaultChatCap)

ChatOnItemError_Abort == "error"

\* The catch of lines 315-317 logs and returns: the for loop goes on.
ChatOnItemError == "chat"

\* null, and the text of a file that was read.
NullContent == [isNull |-> TRUE, text |-> <<>>]

TextContent(text) == [isNull |-> FALSE, text |-> text]

NeedsWrite_Always(existingContent, content) == TRUE

\* if (existingContent !== content)
NeedsWrite(existingContent, content) == existingContent # TextContent(content)

ChatGuard_KeyOnly(cfg) == IF cfg.apiKey = "" THEN "nokey" ELSE "run"

\* Lines 264-271: the two early returns of syncChats.
ChatGuard(cfg) ==
    IF ~cfg.syncChats THEN "off"
    ELSE IF cfg.apiKey = "" THEN "nokey"
    ELSE "run"

StartSyncChats(p) ==
    /\ cPc[p] \in {"idle", "off", "nokey", "done", "error"}
    /\ cRun[p] < MaxRuns
    /\ UNCHANGED <<renderVars, reqVars, lifelogVars, settings, tz, nowT, files, remote,
                   cPage, cNextCursor, cPath, cContent>>
    /\ cRun' = [cRun EXCEPT ![p] = @ + 1]
    /\ cursor' = [cursor EXCEPT ![p] = 0]
    /\ processedChats' = [processedChats EXCEPT ![p] = 0]
    /\ cRequests' = [cRequests EXCEPT ![p] = 0]
    /\ cReceived' = [cReceived EXCEPT ![p] = 0]
    /\ cWrites' = [cWrites EXCEPT ![p] = 0]
    /\ cFetchFailed' = [cFetchFailed EXCEPT ![p] = FALSE]
    /\ cItemFailures' = [cItemFailures EXCEPT ![p] = 0]
    /\ IF ChatGuard(settings) = "off"
         THEN cPc' = [cPc EXCEPT ![p] = "off"] /\ UNCHANGED <<folders, faults>>
         ELSE IF ChatGuard(settings) = "nokey"
                THEN cPc' = [cPc EXCEPT ![p] = "nokey"] /\ UNCHANGED <<folders, faults>>
                ELSE \E createFails \in BOOLEAN :
                       /\ createFails =>
                            (settings.chatFolderPath \notin folders /\ faults < MaxFaults)
                       /\ IF createFails
                            THEN \* createFolder throws
                                 /\ cPc' = [cPc EXCEPT ![p] = "error"]
                                 /\ faults' = faults + 1
                                 /\ UNCHANGED folders
                            ELSE /\ folders' = folders \cup {settings.chatFolderPath}
                                 /\ cPc' = [cPc EXCEPT ![p] = "fetch"]
                                 /\ UNCHANGED faults

\* await this.api.getChats(...): a page, or the error makeRequest threw.
GetChats(p) ==
    /\ cPc[p] = "fetch"
    /\ UNCHANGED <<renderVars, reqVars, lifelogVars, envVars, remote, cursor, processedChats,
                   cPath, cContent, cRun, cWrites, cItemFailures>>
    /\ cRequests' = [cRequests EXCEPT ![p] = Min(@ + 1, MaxRequests)]
    /\ \/ /\ faults < MaxFaults
          /\ faults' = faults + 1
          /\ cFetchFailed' = [cFetchFailed EXCEPT ![p] = TRUE]
          /\ cPc' = [cPc EXCEPT ![p] = "error"]
          /\ UNCHANGED <<cPage, cNextCursor, cReceived>>
       \/ LET result == ServicePage(remote, cursor[p], PageLimit(settings))
          IN  /\ cPage' = [cPage EXCEPT ![p] = result.chats]
              /\ cNextCursor' = [cNextCursor EXCEPT ![p] = result.nextCursor]
              /\ cReceived' = [cReceived EXCEPT ![p] = @ + Len(result.chats)]
              /\ cPc' = [cPc EXCEPT ![p] = "chat"]
              /\ UNCHANGED <<faults, cFetchFailed>>

\* processChatFile up to the write: path, rendering, read and comparison.
\* A chat whose path cannot be computed is logged and counted as processed.
ProcessChat(p) ==
    /\ cPc[p] = "chat"
    /\ cPage[p] # <<>>
    /\ UNCHANGED <<renderVars, reqVars, lifelogVars, envVars, remote, cursor, cNextCursor, cRun,
                   cRequests, cReceived, cWrites, cFetchFailed>>
    /\ LET chat == Head(cPage[p])
       IN  IF getChatFilePathThrows(chat, settings.chatFileFormat)
             THEN /\ cItemFailures' = [cItemFailures EXCEPT ![p] = @ + 1]
                  /\ cPc' = [cPc EXCEPT ![p] = ChatOnItemError]
                  /\ cPage' = [cPage EXCEPT ![p] = Tail(@)]
                  /\ processedChats' = [processedChats EXCEPT ![p] = @ + 1]
                  /\ UNCHANGED <<cPath, cContent, faults>>
             ELSE LET filePath == getChatFilePath(chat, settings.chatFolderPath,
                                                  settings.chatFileFormat, tz)
                      content == formatChatMarkdown(chat, tz)
                  IN  \E readFails \in BOOLEAN :
                        /\ readFails => (filePath \in DOMAIN files /\ faults < MaxFaults)
                        /\ faults' = IF readFails THEN faults + 1 ELSE faults
                        /\ LET existingContent ==
                                 IF filePath \in DOMAIN files /\ ~readFails
                                   THEN TextContent(files[filePath])
                                   ELSE NullContent
                           IN  IF NeedsWrite(existingContent, content)
                                 THEN /\ cPc' = [cPc EXCEPT ![p] = "write"]
                                      /\ cPath' = [cPath EXCEPT ![p] = filePath]
                                      /\ cContent' = [cContent EXCEPT ![p] = content]
                                      /\ UNCHANGED <<cPage, processedChats, cItemFailures>>
                                 ELSE /\ cPage' = [cPage EXCEPT ![p] = Tail(@)]
                                      /\ processedChats' =
                                           [processedChats EXCEPT ![p] = @ + 1]
                                      /\ UNCHANGED <<cPc, cPath, cContent, cItemFailures>>

\* await this.app.vault.adapter.write(filePath, content), line 313.
WriteChat(p) ==
    /\ cPc[p] = "write"
    /\ UNCHANGED <<renderVars, reqVars, lifelogVars, settings, tz, nowT, folders, remote, cursor,
                   cNextCursor, cPath, cContent, cRun, cRequests, cReceived,
                   cFetchFailed>>
    /\ cWrites' = [cWrites EXCEPT ![p] = @ + 1]
    /\ cPage' = [cPage EXCEPT ![p] = Tail(@)]
    /\ processedChats' = [processedChats EXCEPT ![p] = @ + 1]
    /\ \/ /\ files' = WriteFile(files, cPath[p], cContent[p])
          /\ cPc' = [cPc EXCEPT ![p] = "chat"]
          /\ UNCHANGED <<faults, cItemFailures>>
       \/ /\ faults < MaxFaults
          /\ faults' = faults + 1
          /\ cItemFailures' = [cItemFailures EXCEPT ![p] = @ + 1]
          /\ cPc' = [cPc EXCEPT ![p] = ChatOnItemError]
          /\ UNCHANGED files

\* Lines 295-298: the page is done; take its cursor and test the loop.
EndPage(p) ==
    /\ cPc[p] = "chat"
    /\ cPage[p] = <<>>
    /\ UNCHANGED <<renderVars, reqVars, lifelogVars, envVars, remote, processedChats, cPage,
                   cNextCursor, cPath, cContent, cRun, cRequests, cReceived, cWrites,
                   cFetchFailed, cItemFailures, faults>>
    /\ cursor' = [cursor EXCEPT ![p] = cNextCursor[p]]
    /\ cPc' = [cPc EXCEPT ![p] =
                 IF ContinuePaging(settings, cNextCursor[p], processedChats[p])
                   THEN "fetch" ELSE "done"]

(***************************************************************************)
(* Initial states and specifications                                       *)
(***************************************************************************)
\* startDate is the day the configured text names (day 0: '2025-02-09').
DEFAULT_SETTINGS ==
    [apiKey |-> "", folderPath |-> "Limitless Lifelogs", startDate |-> 0,
     chatFolderPath |-> "Limitless Chats", syncChats |-> FALSE,
     chatFileFormat |-> "per-chat", maxChatsPerSync |-> 50]

\* No lifelog has been handed to the renderer.
NotRendered == <<"not rendered">>

NoLifelog == [markdown |-> <<>>, title |-> "", contents |-> <<>>]

RenderIdle == lifelogIn = NoLifelog /\ markdownOut = NotRendered

ReqIdle ==
    /\ reqPc = [c \in Callers |-> "idle"]
    /\ retries = [c \in Callers |-> 0]
    /\ attempts = [c \in Callers |-> 0]
    /\ lastError = [c \in Callers |-> NoError]
    /\ delay = [c \in Callers |-> 0]
    /\ waited = [c \in Callers |-> 0]
    /\ all429 = [c \in Callers |-> TRUE]
    /\ calls = [c \in Callers |-> 0]

EnvIdle ==
    /\ settings = DEFAULT_SETTINGS
    /\ tz = [base |-> 0, dstOn |-> Far, dstOff |-> Far]
    /\ nowT = 0
    /\ files = <<>>
    /\ folders = {}

LifelogIdle ==
    /\ lPc = "idle"
    /\ currentDate = 0
    /\ endDate = 0
    /\ allLifelogs = <<>>
    /\ lPages = 0
    /\ lPageLog = <<>>
    /\ fetchLog = <<>>
    /\ lWritten = <<>>
    /\ lFailedAt = NoDate
    /\ initialDates = {}

ChatIdle ==
    /\ cPc = [p \in ChatProcs |-> "idle"]
    /\ cursor = [p \in ChatProcs |-> 0]
    /\ processedChats = [p \in ChatProcs |-> 0]
    /\ cPage = [p \in ChatProcs |-> <<>>]
    /\ cNextCursor = [p \in ChatProcs |-> 0]
    /\ cPath = [p \in ChatProcs |-> FilePath(<<>>, ChatName(<<>>))]
    /\ cContent = [p \in ChatProcs |-> <<>>]
    /\ cRun = [p \in ChatProcs |-> 0]
    /\ cRequests = [p \in ChatProcs |-> 0]
    /\ cReceived = [p \in ChatProcs |-> 0]
    /\ cWrites = [p \in ChatProcs |-> 0]
    /\ cFetchFailed = [p \in ChatProcs |-> FALSE]
    /\ cItemFailures = [p \in ChatProcs |-> 0]
    /\ faults = 0

NoRemote == [chats |-> <<>>, pageSize |-> 1, trailing |-> FALSE, endless |-> FALSE]

\* ---- the request executor alone ----
InitReq == ReqIdle /\ RenderIdle /\ EnvIdle /\ LifelogIdle /\ ChatIdle /\ remote = NoRemote

NextReq ==
    \E c \in Callers : Call(c) \/ Attempt(c) \/ Timeout(c)

SpecReq == InitReq /\ [][NextReq]_vars

\* ---- one lifelog sync over a vault that may hold earlier files ----
NowHours == {0, 12, 23}

\* Bound: lifelog files present before the run.
MaxInitialFiles == 2

InitialLifelogPaths ==
    { FilePath(<<"Limitless Lifelogs">>, DateName(d)) : d \in 0..MaxDay }

InitLifelogs ==
    /\ ReqIdle
    /\ RenderIdle
    /\ LifelogIdle
    /\ ChatIdle
    /\ remote = NoRemote
    /\ \E key \in {"", "k"}, start \in {0, 1} :
         settings = [DEFAULT_SETTINGS EXCEPT !.apiKey = key, !.startDate = start]
    /\ tz \in TimeZones
    /\ nowT \in { ParseDate(d) + h : d \in 0..MaxDay, h \in NowHours }
    /\ \E present \in SUBSET InitialLifelogPaths :
         /\ Cardinality(present) <= MaxInitialFiles
         /\ files = [q \in present |-> OldText]
    /\ folders \in {{}, {"Limitless Lifelogs"}}
    /\ (files # <<>>) => folders # {}

NextLifelogs ==
    \/ StartSyncLifelogs
    \/ FetchLifelogPage
    \/ WriteLifelogFile
    \/ NextDate

SpecLifelogs == InitLifelogs /\ [][NextLifelogs]_vars

\* ---- lifelog sync over a vault that holds files of several kinds ----
\* Date-named and other files directly under the lifelog folder, in a
\* subfolder of it and in another folder.
VaultPaths ==
    { FilePath(<<"Limitless Lifelogs">>, DateName(d)) : d \in 0..MaxDay }
      \cup { FilePath(<<"Limitless Lifelogs", "archive">>, DateName(d)) : d \in 1..MaxDay }
      \cup { FilePath(<<"Journal">>, DateName(MaxDay)),
              FilePath(<<"Limitless Lifelogs">>, OtherName) }

InitStartDate ==
    /\ ReqIdle
    /\ RenderIdle
    /\ LifelogIdle
    /\ ChatIdle
    /\ remote = NoRemote
    /\ \E start \in {0, 1} :
         settings = [DEFAULT_SETTINGS EXCEPT !.apiKey = "k", !.startDate = start]
    /\ tz \in TimeZones
    /\ nowT \in { ParseDate(d) + 12 : d \in 0..MaxDay }
    /\ \E present \in SUBSET VaultPaths :
         /\ Cardinality(present) <= MaxInitialFiles
         /\ files = [q \in present |-> OldText]
    /\ folders = {"Limitless Lifelogs"}

SpecStartDate == InitStartDate /\ [][NextLifelogs]_vars

\* ---- chat sync, run after run by one invocation at a time ----
\* Bound: chats the service holds.
MaxRemoteChats == 2

\* Bound: the service's own page size.
MaxServicePage == 2

RECURSIVE SeqsUpTo(_, _)
SeqsUpTo(S, n) ==
    IF n = 0 THEN {<<>>}
    ELSE LET shorter == SeqsUpTo(S, n - 1)
         IN  shorter \cup {Append(q, x) : q \in shorter, x \in S}

ChatFileFormats == {"per-chat", "daily", "monthly"}

\* UTC and UTC+1, without daylight saving.
FixedZones == {[base |-> b, dstOn |-> Far, dstOff |-> Far] : b \in {0, 1}}

InitChats ==
    /\ ReqIdle
    /\ RenderIdle
    /\ LifelogIdle
    /\ ChatIdle
    /\ \E on \in BOOLEAN, key \in {"", "k"}, fmt \in ChatFileFormats, cap \in {0, 1, 2} :
         /\ (~on \/ key = "") => (fmt = "per-chat" /\ cap = 1)
         /\ settings = [DEFAULT_SETTINGS EXCEPT !.apiKey = key, !.syncChats = on,
                                                !.chatFileFormat = fmt,
                                                !.maxChatsPerSync = cap]
    /\ tz \in FixedZones
    /\ nowT = 0
    /\ files = <<>>
    /\ folders = {}
    /\ remote \in [chats : SeqsUpTo(ChatUniverse, MaxRemoteChats),
                    pageSize : 1..MaxServicePage, trailing : BOOLEAN,
                    endless : {FALSE}]

NextChats ==
    \/ StartSyncChats(1)
    \/ GetChats(1)
    \/ ProcessChat(1)
    \/ WriteChat(1)
    \/ EndPage(1)

SpecChats == InitChats /\ [][NextChats]_vars

\* ---- chat sync against a service that holds many chats ----
\* n chats, ChatA and ChatB in turn.
CyclicChats(n) == [i \in 1..n |-> IF i % 2 = 1 THEN ChatA ELSE ChatB]

InitChatCap ==
    /\ ReqIdle
    /\ RenderIdle
    /\ LifelogIdle
    /\ ChatIdle
    /\ \E cap \in {1, 51, 101, 191} :
         settings = [DEFAULT_SETTINGS EXCEPT !.apiKey = "k", !.syncChats = TRUE,
                                            !.maxChatsPerSync = cap]
    /\ tz \in FixedZones
    /\ nowT = 0
    /\ files = <<>>
    /\ folders = {}
    /\ \E n \in {0, 3, 120, 250} :
         remote = [chats |-> CyclicChats(n), pageSize |-> PageLimitCap,
                   trailing |-> FALSE, endless |-> FALSE]

SpecChatCap == InitChatCap /\ [][NextChats]_vars

\* ---- 'Sync All' and overlapping chat sync invocations ----
InitOverlap ==
    /\ ReqIdle
    /\ RenderIdle
    /\ LifelogIdle
    /\ ChatIdle
    /\ \E fmt \in ChatFileFormats, chatFolder \in {"Limitless Chats", "Limitless Lifelogs"} :
         settings = [DEFAULT_SETTINGS EXCEPT !.apiKey = "k", !.syncChats = TRUE,
                                            !.chatFileFormat = fmt,
                                            !.chatFolderPath = chatFolder,
                                            !.maxChatsPerSync = 2]
    /\ tz \in FixedZones
    /\ nowT = 0
    /\ files = <<>>
    /\ folders = {}
    /\ remote \in [chats : SeqsUpTo({ChatA, ChatB}, MaxRemoteChats),
                    pageSize : {MaxServicePage}, trailing : {FALSE},
                    endless : {FALSE}]

NextOverlap ==
    \/ \E p \in ChatProcs :
          \/ cRun[p] = 0 /\ StartSyncChats(p)
          \/ GetChats(p)
          \/ ProcessChat(p)
          \/ WriteChat(p)
          \/ EndPage(p)
    \/ StartSyncLifelogs
    \/ FetchLifelogPage
    \/ WriteLifelogFile
    \/ NextDate

SpecOverlap == InitOverlap /\ [][NextOverlap]_vars

\* ---- one lifelog sync and one chat sync against a service that may hand
\* out a cursor with every page; every awaited call returns and every
\* procedure that can take a step takes it ----
InitEndless ==
    /\ ReqIdle
    /\ RenderIdle
    /\ LifelogIdle
    /\ ChatIdle
    /\ \E cap \in {1, 2} :
         settings = [DEFAULT_SETTINGS EXCEPT !.apiKey = "k", !.syncChats = TRUE,
                                            !.maxChatsPerSync = cap]
    /\ tz \in FixedZones
    /\ nowT \in {0, HoursPerDay}
    /\ files = <<>>
    /\ folders = {}
    /\ remote \in [chats : SeqsUpTo({ChatA}, MaxRemoteChats), pageSize : {1},
                    trailing : {FALSE}, endless : BOOLEAN]

ChatStepEndless ==
    \/ cRun[1] = 0 /\ StartSyncChats(1)
    \/ GetChats(1)
    \/ ProcessChat(1)
    \/ WriteChat(1)
    \/ EndPage(1)

LifelogStepEndless ==
    \/ StartSyncLifelogs
    \/ FetchLifelogPage
    \/ WriteLifelogFile
    \/ NextDate

NextEndless == ChatStepEndless \/ LifelogStepEndless

SpecEndless ==
    /\ InitEndless
    /\ [][NextEndless]_vars
    /\ WF_vars(ChatStepEndless)
    /\ WF_vars(LifelogStepEndless)

\* ---- formatLifelogMarkdown applied to one lifelog ----
\* Bound: nodes in the contents of a lifelog.
MaxNodes == 4

\* Nodes of the kinds the renderer tells apart: two section headings, a
\* blockquote with speaker and start time, one with neither, a paragraph
\* and a heading1.
NodeUniverse ==
    { [type |-> "heading2", content |-> "A", speakerName |-> "", startTime |-> 0],
      [type |-> "heading2", content |-> "B", speakerName |-> "", startTime |-> 0],
      [type |-> "blockquote", content |-> "q1", speakerName |-> "Ann", startTime |-> 7],
      [type |-> "blockquote", content |-> "q2", speakerName |-> "", startTime |-> 0],
      [type |-> "paragraph", content |-> "p", speakerName |-> "", startTime |-> 0],
      [type |-> "heading1", content |-> "T", speakerName |-> "", startTime |-> 0] }

InitRender ==
    /\ ReqIdle
    /\ EnvIdle
    /\ LifelogIdle
    /\ ChatIdle
    /\ remote = NoRemote
    /\ lifelogIn \in [markdown : {<<>>, <<"m", "\n", "\n", "d">>},
                       title : {"", "T"},
                       contents : SeqsUpTo(NodeUniverse, MaxNodes)]
    /\ markdownOut = NotRendered

\* One call of formatLifelogMarkdown.
FormatLifelog ==
    /\ markdownOut = NotRendered
    /\ markdownOut' = formatLifelogMarkdown(lifelogIn)
    /\ UNCHANGED <<lifelogIn, reqVars, envVars, lifelogVars, chatVars>>

SpecRender == InitRender /\ [][FormatLifelog]_vars

(***************************************************************************)
(* Claims about the request executor                                       *)
(***************************************************************************)
\* C4 (retry ceiling): the retry counter starts at 0 and stands one below
\* the number of requests issued; no wait is started once it has reached
\* maxRetries; a call whose every attempt is answered 429 ends, after
\* maxRetries retries, by throwing the 429 error.
C4_RetryCeiling ==
    \A c \in Callers :
        /\ retries[c] \in 0..maxRetries
        /\ attempts[c] =
             IF reqPc[c] \in {"idle", "send"} THEN retries[c] ELSE retries[c] + 1
        /\ (reqPc[c] = "wait" => retries[c] < maxRetries)
        /\ (all429[c] /\ attempts[c] > maxRetries =>
              /\ reqPc[c] = "thrown"
              /\ lastError[c].status = 429
              /\ retries[c] = maxRetries)

C4_Witness ==
    \E c \in Callers :
        /\ reqPc[c] = "thrown"
        /\ all429[c]
        /\ retries[c] = maxRetries
        /\ attempts[c] = maxRetries + 1

\* C9 (no retry on non-429 failures): whenever the error caught is not a
\* 429 (a network error, another status, a 200 without usable json) the
\* call has thrown without computing a delay, and a call that has thrown
\* issues no further request.
C9_NoRetryOnOtherFailures ==
    /\ [](\A c \in Callers :
            (lastError[c] # NoError /\ lastError[c].status # 429) =>
                (reqPc[c] = "thrown" /\ delay[c] = 0))
    /\ [][\A c \in Callers :
            reqPc[c] = "thrown" =>
                (attempts'[c] = attempts[c] \/ calls'[c] # calls[c])]_vars

C9_Witness ==
    \E c \in Callers :
        /\ reqPc[c] = "thrown"
        /\ lastError[c].status = 500
        /\ retries[c] = 2

\* The retry-after texts that are an integer count of seconds, with the
\* count they denote.
C11_IntegerHeaders == {<<"3">>, <<"0">>, <<"-", "3">>, <<"1", "2">>}

C11_Seconds(h) ==
    CASE h = <<"3">> -> 3
      [] h = <<"0">> -> 0
      [] h = <<"-", "3">> -> 0 - 3
      [] h = <<"1", "2">> -> 12

\* C11 (backoff delay): while a call waits before a retry, the delay is
\* n * 1000 ms when the 429 carried retry-after with the integer n, and
\* 1000 * 2^N ms, N = 0..4 the number of retries made so far, when it
\* carried no retry-after; the timer of a wait runs for the delay, and for
\* no time at all when the delay is zero or negative, and the next request
\* follows with the retry counted.
C11_BackoffDelay ==
    /\ [](\A c \in Callers :
            reqPc[c] = "wait" =>
              LET h == lastError[c].retryAfter
              IN  /\ lastError[c].status = 429
                  /\ (h \in C11_IntegerHeaders => delay[c] = C11_Seconds(h) * 1000)
                  /\ (h = <<"3">> => delay[c] = 3000)
                  /\ (h = NoHeader =>
                        /\ retries[c] \in 0..4
                        /\ delay[c] =
                             CASE retries[c] = 0 -> 1000
                               [] retries[c] = 1 -> 2000
                               [] retries[c] = 2 -> 4000
                               [] retries[c] = 3 -> 8000
                               [] retries[c] = 4 -> 16000))
    /\ [][\A c \in Callers :
            (reqPc[c] = "wait" /\ reqPc'[c] # "wait") =>
                /\ reqPc'[c] = "send"
                /\ retries'[c] = retries[c] + 1
                /\ (delay[c] # NaN /\ delay[c] <= 0 => waited'[c] = 0)
                /\ (delay[c] > 0 => waited'[c] = delay[c])]_vars

\* One caller about to send its fifth retry after a wait of 16000 ms, the
\* other about to send a retry at once after retry-after: 0.
C11_Witness ==
    /\ reqPc["lifelogs"] = "send"
    /\ retries["lifelogs"] = 5
    /\ waited["lifelogs"] = 16000
    /\ reqPc["chats"] = "wait"
    /\ lastError["chats"].retryAfter = <<"0">>
    /\ delay["chats"] = 0

(***************************************************************************)
(* Claims about the lifelog sync                                           *)
(***************************************************************************)
\* C3 as stated (resumability): every date a run fetches is strictly later
\* than every date that had a file in the lifelog folder when it started.
C3_FetchesOnlyStrictlyLater ==
    \A i \in 1..Len(fetchLog) : \A d \in initialDates : fetchLog[i] > d

\* C3 as amended: no date a run fetches is earlier than a date that had a
\* file in the lifelog folder when it started (the latest such date itself
\* is fetched again).
C3_FetchesNothingEarlier ==
    \A i \in 1..Len(fetchLog) : \A d \in initialDates : fetchLog[i] >= d

C3_Witness ==
    /\ lPc = "done"
    /\ Cardinality(initialDates) = 2
    /\ Len(fetchLog) >= 2
    /\ \A d \in initialDates : fetchLog[1] >= d
    /\ fetchLog[1] \in initialDates

\* C6 (lifelog failure semantics): once the fetch or the write of a date has
\* failed the run fetches and writes nothing more, and the files the run
\* wrote hold what it wrote.
C6_FailureAborts ==
    /\ [](lFailedAt # NoDate =>
            /\ lPc = "error"
            /\ \A d \in DOMAIN lWritten :
                 /\ d <= lFailedAt
                 /\ files[FilePath(<<settings.folderPath>>, DateName(d))] = lWritten[d])
    /\ [][lFailedAt # NoDate =>
            (fetchLog' = fetchLog /\ files' = files /\ lWritten' = lWritten)]_vars

C6_Witness ==
    /\ lFailedAt = 2
    /\ lPc = "error"
    /\ DOMAIN lWritten = {0, 1}
    /\ Len(fetchLog) >= 3

\* C8 (date walk): a run that completes has fetched each calendar day from
\* the start day to the current day once, in ascending order (the current
\* day read as the UTC day or as the local day of the run's start).
C8_EachDayOnce ==
    (lPc = "done" /\ fetchLog # <<>>) =>
        /\ \A i \in 1..Len(fetchLog) : fetchLog[i] = fetchLog[1] + (i - 1)
        /\ fetchLog[Len(fetchLog)] \in
             {IsoDate(endDate), IsoDate(endDate + Offset(tz, endDate))}

\* C10 (empty date): when getLifelogs returns no lifelog for a date the
\* step changes no file and the walk moves on to the next date; a write is
\* only ever pending with at least one lifelog.
C10_EmptyDateUntouched ==
    /\ [](lPc = "write" => Len(allLifelogs) > 0)
    /\ [][(lPc = "page" /\ lPc' \notin {"page", "error"} /\ allLifelogs' = <<>>) =>
            (lPc' = "next" /\ files' = files)]_vars
    /\ [][(lPc = "next" /\ allLifelogs = <<>>) =>
            (files' = files /\ lPc' \in {"page", "done"})]_vars

C10_Witness ==
    /\ lPc = "page"
    /\ Len(fetchLog) = 2
    /\ LifelogFile(ParseDate(fetchLog[1])) \in DOMAIN files
    /\ files[LifelogFile(ParseDate(fetchLog[1]))] = OldText
    /\ lWritten = <<>>

(***************************************************************************)
(* Claims about the chat sync                                              *)
(***************************************************************************)
Clamp(x, lo, hi) == Max(lo, Min(x, hi))

\* C1 (idempotence): a chat sync run that follows a completed run against
\* the same chats, with no I/O fault in either and maxChatsPerSync within
\* the range of its slider, issues no write.
C1_SecondRunWritesNothing ==
    \A p \in ChatProcs :
        (cRun[p] = 2 /\ faults = 0 /\ settings.maxChatsPerSync \in 1..DefaultChatCap)
            => cWrites[p] = 0

\* C2 (chat cap): the number of chats processed in a run never exceeds
\* maxChatsPerSync clamped to 1..200.
C2_ProcessedWithinCap ==
    \A p \in ChatProcs :
        processedChats[p] <= Clamp(settings.maxChatsPerSync, 1, DefaultChatCap)

\* C5 (single in-flight writer per path): no two procedures are at the same
\* time between their read of a path and their write of it, and a lifelog
\* sync and a chat sync never have a write of the same path pending.
C5_SingleWriterPerPath ==
    /\ \A p, q \in ChatProcs :
         (p # q /\ cPc[p] = "write" /\ cPc[q] = "write") => cPath[p] # cPath[q]
    /\ \A p \in ChatProcs :
         (cPc[p] = "write" /\ lPc = "write") => cPath[p] # LifelogFile(currentDate)

\* C7 (per-chat error isolation): every chat of a received page is counted
\* as processed exactly once, failed or not; a run whose chats failed is not
\* ended by that; a completed run has processed every chat it received and
\* stopped by the stopping rule; a failed page fetch ends the run with every
\* earlier chat processed, and nothing is requested, processed or written
\* after it.
C7_PerChatIsolation ==
    /\ [](\A p \in ChatProcs :
            /\ processedChats[p] + Len(cPage[p]) = cReceived[p]
            /\ (cItemFailures[p] > 0 /\ ~cFetchFailed[p]) => cPc[p] # "error"
            /\ cPc[p] = "done" =>
                 /\ processedChats[p] = cReceived[p]
                 /\ ~ContinuePaging(settings, cursor[p], processedChats[p])
            /\ cFetchFailed[p] =>
                 (cPc[p] = "error" /\ processedChats[p] = cReceived[p]))
    /\ [][\A p \in ChatProcs :
            (cFetchFailed[p] /\ cFetchFailed'[p]) =>
                /\ cRequests'[p] = cRequests[p]
                /\ processedChats'[p] = processedChats[p]
                /\ files' = files]_vars

C7_Witness ==
    /\ remote.chats = <<ChatC, ChatA>>
    /\ remote.pageSize = 1
    /\ settings.chatFileFormat = "daily"
    /\ cPc[1] = "done"
    /\ cRun[1] = 1
    /\ cItemFailures[1] = 1
    /\ cRequests[1] = 2
    /\ cWrites[1] = 1
    /\ getChatFilePath(ChatA, settings.chatFolderPath, "daily", tz) \in DOMAIN files

\* C12 (chat sync guard): with the chat-sync flag off or no API key set,
\* however often chat sync is invoked, no page has been requested, no
\* folder created and no file written, and the invocation is at rest.
C12_GuardedNoOp ==
    (~settings.syncChats \/ settings.apiKey = "") =>
        /\ \A p \in ChatProcs :
              /\ cRequests[p] = 0
              /\ cWrites[p] = 0
              /\ cPc[p] \in {"idle", "off", "nokey"}
        /\ folders = {}
        /\ files = <<>>
        /\ \A c \in Callers : attempts[c] = 0

\* Chat sync has been invoked twice with the flag on and no API key, over
\* a service that holds chats.
C12_Witness ==
    /\ settings.syncChats
    /\ settings.apiKey = ""
    /\ cPc[1] = "nokey"
    /\ cRun[1] = 2
    /\ remote.chats # <<>>

\* C13 (termination of a sync): a chat sync that has started requesting
\* pages reaches its completion notice or its error notice, and so does a
\* lifelog sync, whatever pages the service answers with, pages that are
\* empty and carry a next-cursor included.
C13_EverySyncEnds ==
    /\ (cPc[1] = "fetch") ~> (cPc[1] \in {"done", "error"})
    /\ (lPc = "page") ~> (lPc \in {"done", "error"})

\* C14 (chat stopping rule), for a cap in the range the settings offer:
\* when the chats of a page have all been processed, the run goes on to
\* request another page exactly when the page's next-cursor is non-empty
\* and the count of processed chats is below maxChatsPerSync; otherwise it
\* ends at the completion notice with that count.  A page is requested
\* only at the start of the run or after such a decision.
C14_StoppingRule ==
    [][\A p \in ChatProcs :
         settings.maxChatsPerSync \in 1..DefaultChatCap =>
           /\ (cPc[p] = "chat" /\ cPc'[p] \in {"fetch", "done"}) =>
                 /\ cPage[p] = <<>>
                 /\ processedChats'[p] = processedChats[p]
                 /\ processedChats[p] = cReceived[p]
                 /\ cPc'[p] = "fetch" <=>
                       (cNextCursor[p] # 0
                          /\ processedChats[p] < settings.maxChatsPerSync)
           /\ (cPc'[p] = "fetch" /\ cPc[p] # "fetch") =>
                 (cPc[p] = "chat" \/ cRequests'[p] = 0)
           /\ (cRequests'[p] > cRequests[p]) => cPc[p] = "fetch"]_vars

\* A run over two pages that stopped at the cap while the last page
\* carried a next-cursor.
C14_Witness ==
    /\ cPc[1] = "done"
    /\ cRequests[1] = 2
    /\ cNextCursor[1] # 0
    /\ processedChats[1] = 2
    /\ settings.maxChatsPerSync = 2

\* The step in which invocation p handles the chat at the head of its page.
C15_Compares(p) ==
    /\ cPc[p] = "chat"
    /\ cPage[p] # <<>>
    /\ ~getChatFilePathThrows(Head(cPage[p]), settings.chatFileFormat)
    /\ (cPc'[p] = "write" \/ cPage'[p] # cPage[p])

C15_Path(p) ==
    getChatFilePath(Head(cPage[p]), settings.chatFolderPath,
                    settings.chatFileFormat, tz)

\* C15 (write only on difference): when processChatFile compares, it goes
\* on to write exactly when the file at the chat's path is absent, could
\* not be read, or holds a text other than the rendering; when the stored
\* text equals the rendering the chat is done without a write.  A write is
\* issued only after such a comparison, to the path and with the text
\* that were compared.
C15_WriteOnlyOnDifference ==
    [][\A p \in ChatProcs :
         /\ C15_Compares(p) =>
               LET path     == C15_Path(p)
                   rendered == formatChatMarkdown(Head(cPage[p]), tz)
                   stored   == path \in DOMAIN files /\ faults' = faults
               IN  /\ cWrites'[p] = cWrites[p]
                   /\ files' = files
                   /\ IF stored /\ files[path] = rendered
                        THEN /\ cPc'[p] = "chat"
                             /\ cPage'[p] = Tail(cPage[p])
                        ELSE /\ cPc'[p] = "write"
                             /\ cPath'[p] = path
                             /\ cContent'[p] = rendered
         /\ cWrites'[p] > cWrites[p] =>
               /\ cPc[p] = "write"
               /\ files' \in {files, WriteFile(files, cPath[p], cContent[p])}
         /\ (files' # files) =>
               \/ lPc = "write"
               \/ \E q \in ChatProcs : cPc[q] = "write" /\ cWrites'[q] > cWrites[q]]_vars

\* A second run has handled a chat whose file already held its rendering,
\* and has written nothing.
C15_Witness ==
    /\ cRun[1] = 2
    /\ cPc[1] = "done"
    /\ processedChats[1] = 1
    /\ cWrites[1] = 0
    /\ cItemFailures[1] = 0
    /\ faults = 0
    /\ files # <<>>

\* The chats a run has processed, in order: the service hands out its
\* chats in sequence, so they are the first processedChats of them.
C16_Processed == SubSeq(remote.chats, 1, processedChats[1])

C16_HasPath(chat) == ~getChatFilePathThrows(chat, settings.chatFileFormat)

C16_PathOf(chat) ==
    getChatFilePath(chat, settings.chatFolderPath, settings.chatFileFormat, tz)

\* C16 (shared-path last writer wins): in the daily or monthly layout, at
\* the end of a chat sync run without I/O failure, the file at the path of
\* a processed chat holds exactly the rendering of the last-processed chat
\* that maps to that path.
C16_LastWriterWins ==
    (/\ cPc[1] = "done"
     /\ faults = 0
     /\ settings.chatFileFormat \in {"daily", "monthly"}) =>
        \A i \in 1..Len(C16_Processed) :
            LET chat == C16_Processed[i]
            IN  (/\ C16_HasPath(chat)
                 /\ \A j \in (i + 1)..Len(C16_Processed) :
                        C16_HasPath(C16_Processed[j]) =>
                            C16_PathOf(C16_Processed[j]) # C16_PathOf(chat)) =>
                    /\ C16_PathOf(chat) \in DOMAIN files
                    /\ files[C16_PathOf(chat)] = formatChatMarkdown(chat, tz)

\* A daily-layout run has processed ChatA and then ChatB, which share a
\* path, and has written twice.
C16_Witness ==
    /\ cPc[1] = "done"
    /\ faults = 0
    /\ settings.chatFileFormat = "daily"
    /\ C16_Processed = <<ChatA, ChatB>>
    /\ C16_PathOf(ChatA) = C16_PathOf(ChatB)
    /\ cWrites[1] = 2
    /\ files[C16_PathOf(ChatA)] = formatChatMarkdown(ChatB, tz)
    /\ files[C16_PathOf(ChatA)] # formatChatMarkdown(ChatA, tz)

\* The days named by the date-named files that lie directly under the
\* lifelog folder.
C17_DirectDates ==
    { f.name.a : f \in { g \in DOMAIN files :
                           /\ g.folder = <<settings.folderPath>>
                           /\ g.ext = "md"
                           /\ g.name.kind = "date" } }

\* C17 (start date selection): the date a lifelog sync run starts from is
\* the latest day named by a date-named file directly under the lifelog
\* folder, and the configured start date exactly when there is no such
\* file; files in subfolders and files with other names play no part.
C17_StartFromDirectFiles ==
    [][(lPc = "idle" /\ lPc' \in {"page", "done"}) =>
          currentDate' =
            IF C17_DirectDates = {}
              THEN ParseDate(settings.startDate)
              ELSE ParseDate(CHOOSE d \in C17_DirectDates :
                               \A e \in C17_DirectDates : d >= e)]_vars

\* The index of the first heading2 node after node i (past the end when
\* there is none), and the lines of the blockquote nodes in between.
C18_SectionEnd(nodes, i) ==
    IF \E j \in (i + 1)..Len(nodes) : nodes[j].type = "heading2"
      THEN CHOOSE j \in (i + 1)..Len(nodes) :
             /\ nodes[j].type = "heading2"
             /\ \A k \in (i + 1)..(j - 1) : nodes[k].type # "heading2"
      ELSE Len(nodes) + 1

RECURSIVE C18_Lines(_, _, _)
C18_Lines(nodes, from, to) ==
    IF from > to THEN <<>>
    ELSE (IF nodes[from].type = "blockquote"
            THEN <<LifelogMessage(nodes[from])>> ELSE <<>>)
           \o C18_Lines(nodes, from + 1, to)

C18_SectionLines(nodes, i) == C18_Lines(nodes, i + 1, C18_SectionEnd(nodes, i) - 1)

\* The text of a section: its '## title' block, then its lines in order.
C18_SectionText(nodes, i) ==
    JoinBlocks(<<SectionHeading(nodes[i].content)>> \o C18_SectionLines(nodes, i),
               <<"\n", "\n">>)

C18_Occurs(seg, text) ==
    \E k \in 0..(Len(text) - Len(seg)) : SubSeq(text, k + 1, k + Len(seg)) = seg

C18_Headings(nodes) == { i \in 1..Len(nodes) : nodes[i].type = "heading2" }

\* C18 as stated (section flushing): for a lifelog without markdown, the
\* text returned holds, for every heading2 node, its '## title' block
\* followed by the section's blockquote lines in input order, whatever the
\* number of lines of the section.
C18_EverySectionEmitted ==
    (markdownOut # NotRendered /\ lifelogIn.markdown = <<>>) =>
        \A i \in C18_Headings(lifelogIn.contents) :
            C18_Occurs(C18_SectionText(lifelogIn.contents, i), markdownOut)

\* C18, amended: the same for every heading2 node whose section has at
\* least one blockquote line, be the section closed by a following
\* heading2 or open at the end of the list; a heading2 node whose section
\* has no blockquote line emits no '## title' block at all.
C18_NonEmptySectionsEmitted ==
    (markdownOut # NotRendered /\ lifelogIn.markdown = <<>>) =>
        LET nodes    == lifelogIn.contents
            nonEmpty == { i \in C18_Headings(nodes) : C18_SectionLines(nodes, i) # <<>> }
        IN  /\ \A i \in nonEmpty : C18_Occurs(C18_SectionText(nodes, i), markdownOut)
            /\ Cardinality({ k \in 1..Len(markdownOut) : markdownOut[k] = "## " })
                 = Cardinality(nonEmpty)

\* A lifelog with a section closed by a heading2 and a section open at the
\* end, one line each, has been rendered.
C18_Witness ==
    /\ markdownOut # NotRendered
    /\ lifelogIn.markdown = <<>>
    /\ Len(lifelogIn.contents) = 4
    /\ lifelogIn.contents[1].type = "heading2"
    /\ lifelogIn.contents[2].type = "blockquote"
    /\ lifelogIn.contents[3].type = "heading2"
    /\ lifelogIn.contents[4].type = "blockquote"
    /\ C18_Occurs(C18_SectionText(lifelogIn.contents, 1), markdownOut)
    /\ C18_Occurs(C18_SectionText(lifelogIn.contents, 3), markdownOut)

RECURSIVE C19_Flatten(_)
C19_Flatten(pages) ==
    IF pages = <<>> THEN <<>> ELSE Head(pages) \o C19_Flatten(Tail(pages))

C20_BudgetPerRequest ==
    [][\A c \in Callers :
         /\ calls'[c] # calls[c] =>
               /\ retries'[c] = 0
               /\ reqPc'[c] = "send"
         /\ retries'[c] # retries[c] =>
               /\ \A d \in Callers \ {c} : retries'[d] = retries[d]
               /\ (calls'[c] = calls[c] => retries'[c] = retries[c] + 1)
         /\ (/\ reqPc[c] = "send"
             /\ reqPc'[c] # "send"
             /\ lastError'[c].status = 429) =>
               (reqPc'[c] = "wait" <=> retries[c] < maxRetries)]_vars

\* The lifelog caller has used up the retries of a request; the chat
\* caller, on its second request, waits for its fifth retry.
C20_Witness ==
    /\ reqPc["lifelogs"] = "thrown"
    /\ retries["lifelogs"] = maxRetries
    /\ calls["chats"] = 2
    /\ reqPc["chats"] = "wait"
    /\ retries["chats"] = maxRetries - 1

====
